---- MODULE Spec2Model ----
(***************************************************************************)
(* Model of the OpenMetadata facade router (src/temp.py): the metadata     *)
(* walk service -> databases -> schemas -> tables -> detail, the service   *)
(* creation endpoint and the flat tables listing.  One behaviour serves    *)
(* one endpoint: the handlers keep no state across requests.               *)
(*                                                                         *)
(* Every outbound HTTP call is one step.  The upstream is external, so the *)
(* outcome of a call (a status, a transport fault, an unparsable body) and *)
(* the content of a listing are chosen when the call is made.              *)
(***************************************************************************)
EXTENDS Integers, Sequences, FiniteSets, TLC

\* ---- bounds -----------------------------------------------------------
\* entities (databases + schemas + tables) the upstream lists in one request
MaxNodes == 4
\* entries in one listing response
MaxList == 2
\* columns of one table record
MaxCols == 1
\* entities (service, databases, schemas, tables, columns) one summary pass visits
MaxEntities == 4
\* owners or tags carried by one entity
MaxIds == 2

\* ---- upstream outcomes ------------------------------------------------
\* statuses the upstream answers a GET with
GetStatuses == {200, 204, 404, 500}

\* session.get / session.post raised Timeout or ConnectionError
TransportFault == [fault |-> TRUE, status |-> 0, json |-> FALSE]

\* a response with a status; json tells whether response.json() parses
Resp(s, j) == [fault |-> FALSE, status |-> s, json |-> j]

\* the body is read only from a response that does not raise for status
GetOutcomes ==
    {TransportFault} \cup {Resp(s, TRUE) : s \in GetStatuses}
                     \cup {Resp(200, FALSE), Resp(204, FALSE)}

\* the outcomes a site that only compares status_code with 200 tells apart:
\* a fault, 200 with and without a parsable body, another 2xx, an error status
StatusTestOutcomes ==
    {TransportFault, Resp(200, TRUE), Resp(200, FALSE), Resp(204, TRUE), Resp(500, TRUE)}

\* requests.Response.raise_for_status: raises HTTPError for 4xx and 5xx
RaisesForStatus(status) == status >= 400 /\ status < 600

\* truth value of a requests.Response (`if http_error.response`): Response.ok
ResponseTruthy(status) == ~RaisesForStatus(status)

\* ---- records ----------------------------------------------------------
\* table.get("id") of a listing record without identifier
NoId == 0

None == [present |-> FALSE]
Some(x) == [present |-> TRUE, val |-> x]

\* owner names and tag FQNs of the upstream records
IdNames == {"", "a", "b"}

\* the "name" / "tagFQN" key of an upstream owner or tag: absent or a string
RawIds == {None} \cup {Some(n) : n \in IdNames}

\* the owners or tags list of one upstream record
RawIdLists == UNION {[1..n -> RawIds] : n \in 0..MaxIds}

\* owner.get("name", "") and tag.get("tagFQN", ""): the identifier of the model
NormName(x) == IF x.present THEN x.val ELSE ""

\* the OwnerModel / TagModel list built from an upstream list, entry by entry
IdModels(raw) == [i \in 1..Len(raw) |-> NormName(raw[i])]

\* truth value of an Optional[str]
Truthy(x) == x.present /\ x.val # ""

\* ---- upstream column records -------------------------------------------
\* a "dataType" / "constraint" key: absent, a flat string or a structured value
Absent == [kind |-> "absent"]
Flat(v) == [kind |-> "flat", val |-> v]

\* a structured type descriptor
Descriptor(n, p, sc, l, d) ==
    [kind |-> "dict", name |-> n, precision |-> p, scale |-> sc, length |-> l,
     displayName |-> d]

\* the {} that column_data.get("dataType", {}) yields for an absent key
EmptyDict == Descriptor(None, None, None, None, None)

\* an upstream column record
RawColumn(name, dataType, display, constraint, tags, children) ==
    [name |-> name, dataType |-> dataType, dataTypeDisplay |-> display,
     constraint |-> constraint, tags |-> tags, children |-> children]

\* the columns the walked tables carry: a structured dataType, or a flat
\* dataType string without dataTypeDisplay
WalkColumn(i, flat) ==
    RawColumn(Some("c" \o ToString(i)),
              IF flat THEN Flat("VARCHAR")
                      ELSE Descriptor(Some("INT"), Some(10), None, None, Some("int")),
              None, Absent, <<>>, <<>>)

\* the column records 1..n of an upstream table record; flat: the first one
\* has a flat dataType
Columns(n, flat) == [i \in 1..n |-> WalkColumn(i, flat /\ i = 1)]

\* an upstream table record; only the detail fetch asks for the lineage field
RawTable(id, name, n, flat, lineage) ==
    [id |-> id, name |-> name, columns |-> Columns(n, flat), lineage |-> lineage]

HTTPException(status, detail) == [kind |-> "error", status |-> status, detail |-> detail]

NoResponse == [kind |-> "none"]

VARIABLES
    endpoint,        \* the endpoint this behaviour serves
    include_lineage, \* query flag of the metadata request
    pc,              \* position of extract_database_metadata
    calls,           \* outbound calls issued so far, in order
    response,        \* what the handler returned or raised
    nodes,           \* entities listed so far by the upstream
    databases, di,   \* _process_databases: listing and loop index
    databases_list,
    summary_stats,
    schemas, si,     \* _process_database_schemas: listing and loop index
    schemas_list,
    tables, ti,      \* _process_database_tables: listing and loop index
    tables_list,
    table_count,
    store,           \* names of the services the upstream holds
    creq,            \* the create-service requests in flight
    treq,            \* path and query parameters of the tables request
    agg,             \* _create_metadata_summary: its pass over the tree
    norm             \* a normalizer's input record and the model it returned

walkVars == <<nodes, databases, di, databases_list, summary_stats,
              schemas, si, schemas_list, tables, ti, tables_list, table_count>>

createVars == <<store, creq>>

pureVars == <<agg, norm>>

vars == <<endpoint, include_lineage, treq, pc, calls, response, walkVars, createVars, pureVars>>

\* an entry of the call log: the call site, what it asked for, the outcome,
\* and the records of a listing that was answered
Call(site, key, o, data) ==
    [site |-> site, key |-> key, fault |-> o.fault, status |-> o.status,
     json |-> o.json, data |-> data]

\* ---- normalizers ------------------------------------------------------
\* an exception left the normalizer
Raised(exc) == [kind |-> "raised", exc |-> exc]

\* line 40 taking the descriptor's displayName for the type
ResolveDataTypeDisplayName(info) ==
    IF info.kind = "dict" THEN info.displayName ELSE Some(info.val)

\* line 40: the nested name when dataType is a dict, else the flat value
ResolveDataType(info) ==
    IF info.kind = "dict" THEN info.name ELSE Some(info.val)

\* line 44: the same precedence for constraint
ResolveConstraint(constraint) ==
    IF constraint.kind = "dict" THEN constraint.name
    ELSE IF constraint.kind = "flat" THEN Some(constraint.val)
    ELSE None

\* lines 55-57: a field of the descriptor, None when dataType is not a dict
DescriptorField(info, field) ==
    IF info.kind = "dict" THEN info[field] ELSE None

\* line 41: `column_data.get("dataTypeDisplay") or data_type_info.get("displayName")`
\* calls .get on a str when dataTypeDisplay is falsy and dataType is flat
DisplayRaises(column_data) ==
    ~Truthy(column_data.dataTypeDisplay) /\ column_data.dataType.kind = "flat"

\* _create_column_model
RECURSIVE CreateColumnModel(_)
CreateColumnModel(column_data) ==
    LET data_type_info == IF column_data.dataType.kind = "absent"
                          THEN EmptyDict ELSE column_data.dataType
        children == [i \in 1..Len(column_data.children) |->
                        CreateColumnModel(column_data.children[i])]
    IN  IF DisplayRaises(column_data)
        THEN Raised("AttributeError")
        ELSE IF \E i \in 1..Len(children) : children[i].kind = "raised"
        THEN Raised("AttributeError")
        ELSE [kind |-> "column",
              name |-> NormName(column_data.name),
              dataType |-> ResolveDataType(data_type_info),
              dataTypeDisplay |-> IF Truthy(column_data.dataTypeDisplay)
                                  THEN column_data.dataTypeDisplay
                                  ELSE data_type_info.displayName,
              constraint |-> ResolveConstraint(column_data.constraint),
              tags |-> IdModels(column_data.tags),
              precision |-> DescriptorField(data_type_info, "precision"),
              scale |-> DescriptorField(data_type_info, "scale"),
              maxLength |-> DescriptorField(data_type_info, "length"),
              children |-> children]

\* _create_table_model
CreateTableModel(table_data, with_lineage) ==
    LET columns_list == [i \in 1..Len(table_data.columns) |->
                            CreateColumnModel(table_data.columns[i])]
    IN  IF \E i \in 1..Len(columns_list) : columns_list[i].kind = "raised"
        THEN Raised("AttributeError")
        ELSE [kind |-> "table",
              id |-> table_data.id,
              name |-> table_data.name,
              columns |-> columns_list,
              column_count |-> Len(table_data.columns),
              lineage |-> IF with_lineage THEN table_data.lineage ELSE None]

\* _fetch_detailed_table_metadata: the detail record, or None on a non-200
\* status and on any exception (transport fault, unparsable body)
FetchDetailedTableMetadata(o, detail) ==
    IF o.fault THEN None
    ELSE IF o.status = 200
         THEN IF o.json THEN Some(detail) ELSE None
         ELSE None

\* the upstream describes the table's first column with a flat dataType, in
\* the listing record and in the detail record alike
FlatTyped(table) ==
    Len(table.columns) > 0 /\ table.columns[1].dataType.kind = "flat"

\* line 207 without the `if table_id:` test
HasIdAlways(table) == TRUE

\* line 207: `if table_id:`
HasId(table) == table.id # NoId

\* line 216 inserting at the front
TablesListPrepend(tl, table_model) == <<table_model>> \o tl

\* line 216: tables_list.append(table_model)
TablesListAppend(tl, table_model) == Append(tl, table_model)

\* lines 204-212: the record the table model is built from
DetailedTable(table, detailed_metadata) ==
    IF detailed_metadata.present THEN detailed_metadata.val ELSE table

RECURSIVE SumSeq(_)
SumSeq(s) == IF s = <<>> THEN 0 ELSE Head(s) + SumSeq(Tail(s))

\* SchemaModel(...) of _process_database_schemas
CreateSchemaModel(schema, tl, tc) ==
    [name |-> schema.name, tables |-> tl, table_count |-> tc]

\* line 302 counting the schemas instead of their tables
DbTableCountOfSchemas(sl) == Len(sl)

\* line 302: sum(schema.table_count for schema in schemas_list)
DbTableCount(sl) == SumSeq([i \in 1..Len(sl) |-> sl[i].table_count])

\* line 303 adding one per table instead of the table's columns
DbColumnCountOfTables(sl) ==
    SumSeq([i \in 1..Len(sl) |-> Len(sl[i].tables)])

\* line 303: sum(len(table.columns) for schema in schemas_list for table in schema.tables)
DbColumnCount(sl) ==
    SumSeq([i \in 1..Len(sl) |->
        SumSeq([j \in 1..Len(sl[i].tables) |-> Len(sl[i].tables[j].columns)])])

\* DatabaseModel(...) of _process_databases
CreateDatabaseModel(database, sl) ==
    [name |-> database.name,
     schemas |-> sl,
     schema_count |-> Len(sl),
     table_count |-> DbTableCount(sl)]

\* ---- create_database_service ------------------------------------------
\* concurrent create-service requests (the endpoint runs in a worker pool)
Reqs == {1, 2}

\* service names and service types the payloads are drawn from
Names == {"svc_a", "svc_b"}
PayloadTypes == {"MySQL", "Trino", "NotARealDB"}

\* lines 478-482
valid_service_types ==
    {"MySQL", "PostgreSQL", "BigQuery", "Snowflake", "Redshift",
     "Oracle", "MSSQL", "MongoDB", "Cassandra", "Clickhouse",
     "Databricks", "Athena", "Hive", "Presto", "Trino"}

\* line 484 with the allow-list check dropped
ValidServiceTypeAny(t) == TRUE

\* line 484
ValidServiceType(t) == t \in valid_service_types

\* line 496 testing for 201 Created instead of 200
ProbeFoundCreated(status) == status = 201

\* line 496: the existence probe found the service
ProbeFound(status) == status = 200

\* line 566: the creation was answered with a conflict
IsConflict(status) == ResponseTruthy(status) /\ status = 409

MessageResponse(m) == [kind |-> "message", message |-> m]

\* lines 588-590: any other exception
InternalError == HTTPException(500, <<"Internal server error">>)

IdleRequest == [pc |-> "idle", name |-> "", serviceType |-> "", response |-> NoResponse]

\* what the upstream may answer to the existence probe of a name
ProbeOutcomes(name) ==
    {TransportFault, Resp(500, TRUE), Resp(IF name \in store THEN 200 ELSE 404, TRUE)}
        \cup (IF name \in store THEN {Resp(200, FALSE)} ELSE {})

\* what the upstream may answer to the creation POST of a name; names are unique
PostOutcomes(name) ==
    {TransportFault, Resp(500, TRUE)}
        \cup (IF name \in store THEN {Resp(409, TRUE)} ELSE {Resp(201, TRUE), Resp(201, FALSE)})

\* ---- _create_metadata_summary ------------------------------------------

\* lines 429-447 without the `if owner.name` / `if tag.tagFQN` filter
AllIds(models) == {models[i] : i \in 1..Len(models)}

\* lines 429-447: `owner.name for owner in owners if owner.name`
NonEmptyIds(models) == {models[i] : i \in {j \in 1..Len(models) : models[j] # ""}}

\* the entity kinds that may follow a visited kind in the nested loops
NextKinds(kind) ==
    CASE kind = "service" -> {"database", "summary"}
      [] kind = "database" -> {"schema", "database", "summary"}
      [] kind = "schema" -> {"table", "schema", "database", "summary"}
      [] OTHER -> {"column", "table", "schema", "database", "summary"}

IdleSummary ==
    [pc |-> "idle", phase |-> "owners", visited |-> 0,
     all_owners |-> {}, all_tags |-> {},
     seen_owners |-> {}, seen_tags |-> {}, repeated |-> FALSE,
     total_owners |-> 0, total_tags |-> 0]

\* ---- extract_database_metadata ----------------------------------------
\* number of entries a listing may return under the budget
ListSizes == 0..(IF MaxNodes - nodes < MaxList THEN MaxNodes - nodes ELSE MaxList)

\* lines 667-676 without the `except Exception` clause of lines 677-679
ExtractFailedOnlyHTTPError(exc) ==
    IF exc = "HTTPError"
    THEN HTTPException(500, <<"Failed to extract metadata", exc>>)
    ELSE Raised(exc)

\* lines 669-679: a requests.HTTPError and any other exception end the request
\* with 500 and str(e) in the detail
ExtractFailed(exc) == HTTPException(500, <<"Failed to extract metadata", exc>>)

\* _fetch_service_metadata without raise_for_status and the status check
FetchServiceResultNoStatus(o) ==
    IF o.fault
    THEN ExtractFailed("ConnectionError")
    ELSE IF ~o.json
    THEN ExtractFailed("JSONDecodeError")
    ELSE NoResponse

\* _fetch_service_metadata under the handlers of extract_database_metadata:
\* the exception the request ends with, or NoResponse when the record is returned
FetchServiceResult(o) ==
    IF o.fault
    THEN ExtractFailed("ConnectionError")
    ELSE IF RaisesForStatus(o.status)
    THEN HTTPException(500, <<"Failed to fetch service metadata", o.status>>)
    ELSE IF o.status # 200
    THEN HTTPException(404, <<"Service not found">>)
    ELSE IF ~o.json
    THEN ExtractFailed("JSONDecodeError")
    ELSE NoResponse

Raise(e) ==
    /\ response' = e
    /\ pc' = "done"

Init ==
    /\ endpoint = "none"
    /\ include_lineage = FALSE
    /\ pc = "idle"
    /\ calls = <<>>
    /\ response = NoResponse
    /\ nodes = 0
    /\ databases = <<>> /\ di = 0
    /\ databases_list = <<>>
    /\ summary_stats = [total_databases |-> 0, total_schemas |-> 0,
                        total_tables |-> 0, total_columns |-> 0]
    /\ schemas = <<>> /\ si = 0
    /\ schemas_list = <<>>
    /\ tables = <<>> /\ ti = 0
    /\ tables_list = <<>>
    /\ table_count = 0
    /\ store = {}
    /\ creq = [r \in Reqs |-> IdleRequest]
    /\ treq = NoResponse
    /\ agg = IdleSummary
    /\ norm = NoResponse

\* a metadata request arrives
ExtractStart ==
    /\ endpoint = "none"
    /\ endpoint' = "metadata"
    /\ include_lineage' \in BOOLEAN
    /\ pc' = "service"
    /\ UNCHANGED <<pureVars, treq, calls, response, walkVars, createVars>>

\* _fetch_service_metadata, and how extract_database_metadata treats its exceptions
FetchServiceMetadata ==
    /\ endpoint = "metadata" /\ pc = "service"
    /\ \E o \in GetOutcomes :
        /\ calls' = Append(calls, Call("service", 0, o, <<>>))
        /\ IF FetchServiceResult(o).kind = "error"
           THEN Raise(FetchServiceResult(o))
           ELSE /\ pc' = "databases"
                /\ UNCHANGED response
    /\ UNCHANGED <<pureVars, endpoint, include_lineage, treq, walkVars, createVars>>

\* _process_databases, lines 264-283: the database listing
ListDatabases ==
    /\ endpoint = "metadata" /\ pc = "databases"
    /\ \E o \in GetOutcomes, k \in ListSizes :
       LET listed == [i \in 1..k |-> [name |-> nodes + i]] IN
        /\ calls' = Append(calls, Call("databases", 0, o, listed))
        /\ IF o.fault \/ RaisesForStatus(o.status) \/ ~o.json
           THEN /\ k = 0
                /\ Raise(ExtractFailed(IF o.fault THEN "ConnectionError"
                                       ELSE IF RaisesForStatus(o.status) THEN "HTTPError"
                                       ELSE "JSONDecodeError"))
                /\ UNCHANGED <<nodes, databases, di>>
           ELSE /\ databases' = listed
                /\ nodes' = nodes + k
                /\ di' = 1
                /\ pc' = IF k = 0 THEN "summary" ELSE "schemas"
                /\ UNCHANGED response
    /\ UNCHANGED <<pureVars, endpoint, include_lineage, treq, databases_list, summary_stats,
                   schemas, si, schemas_list, tables, ti, tables_list, table_count, createVars>>

\* _process_database_schemas, lines 358-375: the schema listing of databases[di]
ListSchemas ==
    /\ endpoint = "metadata" /\ pc = "schemas"
    /\ \E o \in StatusTestOutcomes, k \in ListSizes :
       LET listed == [i \in 1..k |-> [name |-> nodes + i]] IN
        /\ calls' = Append(calls, Call("schemas", databases[di].name, o, listed))
        /\ IF o.fault
           THEN /\ k = 0
                /\ Raise(ExtractFailed("ConnectionError"))
                /\ UNCHANGED <<nodes, schemas, si, schemas_list>>
           ELSE IF o.status # 200
           THEN /\ k = 0
                /\ schemas' = <<>>
                /\ si' = 1
                /\ schemas_list' = <<>>
                /\ pc' = "db_done"
                /\ UNCHANGED <<response, nodes>>
           ELSE IF ~o.json
           THEN /\ k = 0
                /\ Raise(ExtractFailed("JSONDecodeError"))
                /\ UNCHANGED <<nodes, schemas, si, schemas_list>>
           ELSE /\ schemas' = listed
                /\ nodes' = nodes + k
                /\ si' = 1
                /\ schemas_list' = <<>>
                /\ pc' = IF k = 0 THEN "db_done" ELSE "tables"
                /\ UNCHANGED response
    /\ UNCHANGED <<pureVars, endpoint, include_lineage, treq, databases, di, databases_list, summary_stats,
                   tables, ti, tables_list, table_count, createVars>>

\* _process_database_tables, lines 182-200: the table listing of schemas[si]
ListTables ==
    /\ endpoint = "metadata" /\ pc = "tables"
    /\ \E o \in StatusTestOutcomes, k \in ListSizes :
       \E hasId \in [1..k -> BOOLEAN], ncols \in [1..k -> 0..MaxCols],
          flat \in [1..k -> BOOLEAN] :
       LET listed == [i \in 1..k |->
                RawTable(IF hasId[i] THEN nodes + i ELSE NoId, nodes + i, ncols[i],
                         flat[i], None)] IN
        /\ \A i \in 1..k : flat[i] => ncols[i] > 0
        /\ calls' = Append(calls, Call("tables", schemas[si].name, o, listed))
        /\ IF o.fault
           THEN /\ k = 0
                /\ Raise(ExtractFailed("ConnectionError"))
                /\ UNCHANGED <<nodes, tables, ti, tables_list, table_count>>
           ELSE IF o.status # 200
           THEN /\ k = 0
                /\ tables' = <<>>
                /\ ti' = 1
                /\ tables_list' = <<>>
                /\ table_count' = 0
                /\ pc' = "schema_done"
                /\ UNCHANGED <<response, nodes>>
           ELSE IF ~o.json
           THEN /\ k = 0
                /\ Raise(ExtractFailed("JSONDecodeError"))
                /\ UNCHANGED <<nodes, tables, ti, tables_list, table_count>>
           ELSE /\ tables' = listed
                /\ nodes' = nodes + k
                /\ ti' = 1
                /\ tables_list' = <<>>
                /\ table_count' = k
                /\ pc' = IF k = 0 THEN "schema_done" ELSE "table"
                /\ UNCHANGED response
    /\ UNCHANGED <<pureVars, endpoint, include_lineage, treq, databases, di, databases_list, summary_stats,
                   schemas, si, schemas_list, createVars>>

\* _process_database_tables, lines 202-216: one iteration over tables[ti],
\* with its detail fetch when the table carries an id
ProcessTable ==
    /\ endpoint = "metadata" /\ pc = "table"
    /\ LET table == tables[ti] IN
       \E o \in StatusTestOutcomes, n \in 0..MaxCols :
        LET flat == n > 0 /\ FlatTyped(table)
            detail == RawTable(table.id, table.name, n, flat, Some("lineage"))
            detailed_metadata == IF HasId(table)
                                 THEN FetchDetailedTableMetadata(o, detail)
                                 ELSE None
            table_model == CreateTableModel(DetailedTable(table, detailed_metadata),
                                            include_lineage)
        IN
        /\ (o.fault \/ o.status # 200 \/ ~o.json \/ ~HasId(table)) => n = 0
        /\ ~HasId(table) => o = Resp(200, TRUE)
        /\ calls' = IF HasId(table)
                    THEN Append(calls, Call("detail", table.id, o,
                                    IF detailed_metadata.present THEN <<detail>> ELSE <<>>))
                    ELSE calls
        /\ IF table_model.kind = "raised"
           THEN /\ Raise(ExtractFailed(table_model.exc))
                /\ UNCHANGED <<ti, tables_list>>
           ELSE /\ tables_list' = TablesListAppend(tables_list, table_model)
                /\ ti' = ti + 1
                /\ pc' = IF ti + 1 > Len(tables) THEN "schema_done" ELSE "table"
                /\ UNCHANGED response
    /\ UNCHANGED <<pureVars, endpoint, include_lineage, treq, nodes, databases, di, databases_list, summary_stats,
                   schemas, si, schemas_list, tables, table_count, createVars>>

\* _process_database_schemas, lines 382-408: the schema model of schemas[si]
BuildSchemaModel ==
    /\ endpoint = "metadata" /\ pc = "schema_done"
    /\ schemas_list' = Append(schemas_list, CreateSchemaModel(schemas[si], tables_list, table_count))
    /\ si' = si + 1
    /\ pc' = IF si + 1 > Len(schemas) THEN "db_done" ELSE "tables"
    /\ UNCHANGED <<pureVars, endpoint, include_lineage, treq, calls, response, nodes, databases, di, databases_list,
                   summary_stats, schemas, tables, ti, tables_list, table_count, createVars>>

\* _process_databases, lines 301-342: the database model of databases[di]
BuildDatabaseModel ==
    /\ endpoint = "metadata" /\ pc = "db_done"
    /\ databases_list' = Append(databases_list, CreateDatabaseModel(databases[di], schemas_list))
    /\ summary_stats' = [summary_stats EXCEPT
            !.total_schemas = @ + Len(schemas_list),
            !.total_tables = @ + DbTableCount(schemas_list),
            !.total_columns = @ + DbColumnCount(schemas_list)]
    /\ di' = di + 1
    /\ pc' = IF di + 1 > Len(databases) THEN "summary" ELSE "schemas"
    /\ UNCHANGED <<pureVars, endpoint, include_lineage, treq, calls, response, nodes, databases,
                   schemas, si, schemas_list, tables, ti, tables_list, table_count, createVars>>

\* lines 344-351 and 645-665: summary and the final response
CreateResponse ==
    /\ endpoint = "metadata" /\ pc = "summary"
    /\ response' = [kind |-> "metadata",
                    databases |-> databases_list,
                    summary |-> [summary_stats EXCEPT !.total_databases = Len(databases)]]
    /\ pc' = "done"
    /\ UNCHANGED <<pureVars, endpoint, include_lineage, treq, calls, walkVars, createVars>>

\* lines 472-491: a create-service request arrives and its serviceType is validated
CreateValidate(r) ==
    /\ endpoint \in {"none", "create"}
    /\ creq[r].pc = "idle"
    /\ endpoint' = "create"
    /\ \E name \in Names, t \in PayloadTypes :
        creq' = [creq EXCEPT ![r] =
            IF ValidServiceType(t)
            THEN [pc |-> "probe", name |-> name, serviceType |-> t, response |-> NoResponse]
            ELSE [pc |-> "done", name |-> name, serviceType |-> t,
                  response |-> HTTPException(400,
                      <<"Invalid serviceType. Must be one of", valid_service_types>>)]]
    /\ UNCHANGED <<pureVars, include_lineage, treq, pc, calls, response, walkVars, store>>

\* lines 493-506: the existence probe
CreateProbe(r) ==
    /\ endpoint = "create"
    /\ creq[r].pc = "probe"
    /\ \E o \in ProbeOutcomes(creq[r].name) :
        /\ calls' = Append(calls, Call("probe", r, o, <<>>))
        /\ creq' = [creq EXCEPT ![r] =
            IF o.fault
            THEN [@ EXCEPT !.pc = "done", !.response = InternalError]
            ELSE IF ProbeFound(o.status)
            THEN IF o.json
                 THEN [@ EXCEPT !.pc = "done",
                                !.response = MessageResponse(<<"already exists with ID", creq[r].name>>)]
                 ELSE [@ EXCEPT !.pc = "done", !.response = InternalError]
            ELSE [@ EXCEPT !.pc = "post"]]
    /\ UNCHANGED <<pureVars, endpoint, include_lineage, treq, pc, response, walkVars, store>>

\* lines 508-584: the creation POST
CreatePost(r) ==
    /\ endpoint = "create"
    /\ creq[r].pc = "post"
    /\ \E o \in PostOutcomes(creq[r].name), stored \in BOOLEAN :
        /\ stored = (IF o.fault THEN stored ELSE ~RaisesForStatus(o.status))
        /\ calls' = Append(calls, Call("post", r, o, <<>>))
        /\ store' = IF stored THEN store \cup {creq[r].name} ELSE store
        /\ creq' = [creq EXCEPT ![r] =
            IF o.fault
            THEN [@ EXCEPT !.pc = "done", !.response = InternalError]
            ELSE IF RaisesForStatus(o.status)
            THEN IF IsConflict(o.status)
                 THEN [@ EXCEPT !.pc = "done",
                                !.response = MessageResponse(<<"already exists", creq[r].name>>)]
                 ELSE [@ EXCEPT !.pc = "done",
                                !.response = HTTPException(500,
                                    <<"OpenMetadata service creation failed", o.status>>)]
            ELSE IF o.json
            THEN [@ EXCEPT !.pc = "done",
                           !.response = MessageResponse(<<"created successfully with ID", creq[r].name>>)]
            ELSE [@ EXCEPT !.pc = "done", !.response = InternalError]]
    /\ UNCHANGED <<pureVars, endpoint, include_lineage, treq, pc, response, walkVars>>

\* ---- get_service_tables -----------------------------------------------
\* values of the optional query parameters database_name and schema_name
OptNames(n) == {None, Some(""), Some(n)}

\* lines 709-717 with `if` in place of `elif`: the tests no longer exclude each other
BuildFilterParamsNoElif(service_name, database_name, schema_name) ==
    LET p1 == IF Truthy(database_name) /\ Truthy(schema_name)
              THEN "databaseSchema" :> (service_name \o "." \o database_name.val
                                                     \o "." \o schema_name.val)
              ELSE <<>>
    IN  IF Truthy(database_name)
        THEN p1 @@ ("database" :> (service_name \o "." \o database_name.val))
        ELSE p1 @@ ("service" :> service_name)

\* lines 709-717: the filter sent upstream, a dict of query parameters
BuildFilterParams(service_name, database_name, schema_name) ==
    IF Truthy(database_name) /\ Truthy(schema_name)
    THEN "databaseSchema" :> (service_name \o "." \o database_name.val \o "." \o schema_name.val)
    ELSE IF Truthy(database_name)
    THEN "database" :> (service_name \o "." \o database_name.val)
    ELSE "service" :> service_name

\* lines 737-755: the columns of a listed table
\* lines 740-754: the column model of the tables listing passes dataType and
\* constraint through as they came
ListingColumnModel(col) ==
    [kind |-> "column",
     name |-> NormName(col.name),
     dataType |-> col.dataType,
     dataTypeDisplay |-> col.dataTypeDisplay,
     constraint |-> col.constraint,
     tags |-> IdModels(col.tags)]

ListingColumns(table, include_columns) ==
    IF include_columns /\ Len(table.columns) > 0
    THEN [i \in 1..Len(table.columns) |-> ListingColumnModel(table.columns[i])]
    ELSE <<>>

\* lines 758-782: the table model of a listed table
ListingTableModel(table, include_columns) ==
    [id |-> table.id,
     name |-> table.name,
     columns |-> ListingColumns(table, include_columns),
     column_count |-> Len(table.columns),
     lineage |-> None]

\* lines 800-810: both handlers answer 500 with the same prefix
ListFailed(exc) == HTTPException(500, <<"Failed to list tables", exc>>)

\* get_service_tables: the whole handler, one outbound call
GetServiceTables ==
    /\ endpoint = "none"
    /\ endpoint' = "tables"
    /\ \E service_name \in Names, database_name \in OptNames("db1"),
          schema_name \in OptNames("s1"),
          include_columns \in BOOLEAN, o \in GetOutcomes, k \in 0..MaxList :
       \E ncols \in [1..k -> 0..MaxCols], flat \in [1..k -> BOOLEAN] :
        LET params == BuildFilterParams(service_name, database_name, schema_name)
            listed == [i \in 1..k |-> RawTable(i, i, ncols[i], flat[i], None)]
            tl == [i \in 1..k |-> ListingTableModel(listed[i], include_columns)]
        IN  /\ treq' = [service_name |-> service_name,
                        database_name |-> database_name,
                        schema_name |-> schema_name,
                        include_columns |-> include_columns]
            /\ \A i \in 1..k : flat[i] => ncols[i] > 0
            /\ calls' = Append(calls, Call("list_tables", params, o, listed))
            /\ IF o.fault \/ RaisesForStatus(o.status) \/ ~o.json
               THEN /\ k = 0
                    /\ response' = ListFailed(IF o.fault THEN "ConnectionError"
                                               ELSE IF RaisesForStatus(o.status) THEN "HTTPError"
                                               ELSE "JSONDecodeError")
               ELSE response' = [kind |-> "tables",
                                 service_name |-> service_name,
                                 filter |-> [database_name |-> database_name,
                                             schema_name |-> schema_name,
                                             include_columns |-> include_columns],
                                 tables |-> tl,
                                 count |-> Len(tl)]
    /\ UNCHANGED <<include_lineage, pc, walkVars, createVars, pureVars>>

\* ---- the summary pass ---------------------------------------------------
\* _create_metadata_summary is entered with a materialized tree
SummaryStart ==
    /\ endpoint = "none"
    /\ endpoint' = "summary"
    /\ agg' = [agg EXCEPT !.pc = "service"]
    /\ UNCHANGED <<include_lineage, treq, pc, calls, response, walkVars, createVars, norm>>

\* lines 429, 434, 438, 442: all_owners.update(...) for the entity being visited
CollectOwners ==
    /\ endpoint = "summary"
    /\ agg.pc \in {"service", "database", "schema", "table"}
    /\ agg.phase = "owners"
    /\ \E raw \in RawIdLists :
        LET owners == IdModels(raw) IN
        agg' = [agg EXCEPT
            !.all_owners = @ \cup NonEmptyIds(owners),
            !.seen_owners = @ \cup AllIds(owners),
            !.repeated = @ \/ (AllIds(owners) \cap agg.seen_owners) # {},
            !.phase = "tags"]
    /\ UNCHANGED <<endpoint, include_lineage, treq, pc, calls, response, walkVars, createVars, norm>>

\* lines 430, 435, 439, 443, 447: all_tags.update(...) for the entity being
\* visited, then the loops move on to the next entity
CollectTags ==
    /\ endpoint = "summary"
    /\ agg.pc \in {"service", "database", "schema", "table", "column"}
    /\ agg.phase = "tags"
    /\ \E raw \in RawIdLists, next \in NextKinds(agg.pc) :
        LET tags == IdModels(raw) IN
        /\ agg.visited + 1 >= MaxEntities => next = "summary"
        /\ agg' = [agg EXCEPT
            !.all_tags = @ \cup NonEmptyIds(tags),
            !.seen_tags = @ \cup AllIds(tags),
            !.repeated = @ \/ (AllIds(tags) \cap agg.seen_tags) # {},
            !.visited = @ + 1,
            !.pc = next,
            !.phase = IF next = "column" THEN "tags" ELSE "owners"]
    /\ UNCHANGED <<endpoint, include_lineage, treq, pc, calls, response, walkVars, createVars, norm>>

\* lines 449-458: the cardinalities reported in MetadataSummary
CreateMetadataSummary ==
    /\ endpoint = "summary"
    /\ agg.pc = "summary"
    /\ agg' = [agg EXCEPT
        !.total_owners = Cardinality(agg.all_owners),
        !.total_tags = Cardinality(agg.all_tags),
        !.pc = "done"]
    /\ UNCHANGED <<endpoint, include_lineage, treq, pc, calls, response, walkVars, createVars, norm>>

\* ---- the column normalizer on its own ----------------------------------
\* the values the keys of an upstream column take
ColumnNames == {None, Some("c1")}

DataTypes ==
    {Absent, Flat("VARCHAR")} \cup
    {Descriptor(n, p, sc, l, d) :
        n \in {None, Some("DECIMAL")}, p \in {None, Some(10)}, sc \in {None, Some(2)},
        l \in {None, Some(255)}, d \in {None, Some("decimal")}}

Displays == {None, Some(""), Some("varchar(255)")}

Constraints ==
    {Absent, Flat("PRIMARY_KEY"), [kind |-> "dict", name |-> None],
     [kind |-> "dict", name |-> Some("UNIQUE")]}

TagLists == {<<>>, <<None>>, <<Some("pii")>>}

\* the nested columns: structured, flat with and without dataTypeDisplay
ChildColumns ==
    {RawColumn(Some("child"), dt, disp, Absent, <<>>, <<>>) :
        dt \in {Absent, Flat("INT"), Descriptor(Some("INT"), Some(3), None, None, None)},
        disp \in {None, Some("int")}}

ChildLists == {<<>>} \cup {<<c>> : c \in ChildColumns}

RawColumns ==
    {RawColumn(n, dt, disp, con, tg, ch) :
        n \in ColumnNames, dt \in DataTypes, disp \in Displays,
        con \in Constraints, tg \in TagLists, ch \in ChildLists}

\* _create_column_model called on one upstream column record
NormalizeColumn ==
    /\ endpoint = "none"
    /\ endpoint' = "normalize"
    /\ \E column_data \in RawColumns :
        norm' = [kind |-> "column", raw |-> column_data,
                 model |-> CreateColumnModel(column_data)]
    /\ UNCHANGED <<include_lineage, treq, pc, calls, response, walkVars, createVars, agg>>

\* ---- check_openmetadata_health -----------------------------------------
\* line 827 taking any response that is ok for healthy
IsHealthyOk(status) == ResponseTruthy(status)

\* line 827
IsHealthy(status) == status = 200

\* lines 830-852: what the payload says about the server
ServerInfo(o) ==
    IF IsHealthy(o.status)
    THEN IF o.json THEN <<"version", "server_data">> ELSE <<"unknown", "version_error">>
    ELSE <<"unknown", "status_code", o.status>>

\* check_openmetadata_health: the whole handler, one outbound call
CheckHealth ==
    /\ endpoint = "none"
    /\ endpoint' = "health"
    /\ \E o \in GetOutcomes :
        /\ calls' = Append(calls, Call("version", 0, o, <<>>))
        /\ response' =
            IF o.fault
            THEN [kind |-> "health", openmetadata_healthy |-> FALSE, api_loaded |-> TRUE,
                  message |-> "OpenMetadata API connection failed",
                  info |-> <<"error", "troubleshooting">>]
            ELSE [kind |-> "health", openmetadata_healthy |-> IsHealthy(o.status),
                  api_loaded |-> TRUE,
                  message |-> IF IsHealthy(o.status)
                              THEN "OpenMetadata API connection successful"
                              ELSE "OpenMetadata connection failed",
                  info |-> ServerInfo(o)]
    /\ UNCHANGED <<include_lineage, treq, pc, walkVars, createVars, pureVars>>

Next ==
    \/ ExtractStart
    \/ FetchServiceMetadata
    \/ ListDatabases
    \/ ListSchemas
    \/ ListTables
    \/ ProcessTable
    \/ BuildSchemaModel
    \/ BuildDatabaseModel
    \/ CreateResponse
    \/ \E r \in Reqs : CreateValidate(r)
    \/ \E r \in Reqs : CreateProbe(r)
    \/ \E r \in Reqs : CreatePost(r)
    \/ GetServiceTables
    \/ CheckHealth
    \/ SummaryStart
    \/ CollectOwners
    \/ CollectTags
    \/ CreateMetadataSummary
    \/ NormalizeColumn

Spec == Init /\ [][Next]_vars

\* ---- properties -------------------------------------------------------
CallIdx == 1..Len(calls)

ListingSites == {"databases", "schemas", "tables"}

\* the call got a response with a status other than 200
NonSuccess(c) == ~c.fault /\ c.status # 200

\* the detail fetch gave no enrichment: non-200, transport fault or unparsable body
DetailFailed(c) == c.site = "detail" /\ (c.fault \/ c.status # 200 \/ ~c.json)

\* the listing was answered 200 with a parsable body
Listed(c) == ~c.fault /\ c.status = 200 /\ c.json

DatabaseModelsOf(resp) == {resp.databases[i] : i \in 1..Len(resp.databases)}

SchemaModelsOf(resp) ==
    UNION {{d.schemas[j] : j \in 1..Len(d.schemas)} : d \in DatabaseModelsOf(resp)}

TableModelsOf(resp) ==
    UNION {{sm.tables[j] : j \in 1..Len(sm.tables)} : sm \in SchemaModelsOf(resp)}

MetadataDone == endpoint = "metadata" /\ pc = "done"

\* C1: once the service record is fetched, a metadata request in which no call
\* hit a transport fault or an unparsable body returns a normal response,
\* whatever status the database, schema and table listings were answered with.
C1_NonSuccessListingNonFatal ==
    (/\ MetadataDone
     /\ \A i \in CallIdx : ~calls[i].fault /\ calls[i].json
     /\ calls[1].status = 200)
        => response.kind = "metadata"

\* C2: a transport fault on a database, schema or table listing call is never
\* surfaced to the caller as an error response.
C2_ListingFaultNotSurfaced ==
    \A i \in CallIdx :
        (endpoint = "metadata" /\ calls[i].site \in ListingSites /\ calls[i].fault)
            => response.kind # "error"

\* C3: a table whose detail fetch returned a non-200 status or raised a fault is
\* still in its schema's table list, at its listing position, built from the
\* basic listing record, and the step that issued the failed detail fetch never
\* ends the request with an error.
C3_EnrichmentBestEffort ==
    /\ (endpoint = "metadata" /\ response.kind = "metadata") =>
         \A i \in CallIdx :
            (calls[i].site = "tables" /\ Listed(calls[i])) =>
               \E sm \in SchemaModelsOf(response) :
                  /\ sm.name = calls[i].key
                  /\ Len(sm.tables) = Len(calls[i].data)
                  /\ \A j \in 1..Len(calls[i].data) :
                        (\E d \in CallIdx : /\ DetailFailed(calls[d])
                                            /\ calls[d].key = calls[i].data[j].id)
                           => sm.tables[j] = CreateTableModel(calls[i].data[j], include_lineage)
    /\ (endpoint = "metadata" /\ response.kind = "error") =>
         ~DetailFailed(calls[Len(calls)])

\* the calls request r issued at a site
CallsOf(r, site) == {i \in CallIdx : calls[i].site = site /\ calls[i].key = r}

\* C4: a creation POST answered 409 makes create-service return the "already
\* exists" success message, not an error.
C4_ConflictIsSuccess ==
    \A r \in Reqs :
        (/\ endpoint = "create" /\ creq[r].pc = "done"
         /\ \E i \in CallsOf(r, "post") : ~calls[i].fault /\ calls[i].status = 409)
            => creq[r].response.kind = "message"

\* C5: when a create-service call created the service and a later call with the
\* same name has its existence probe answered by the upstream's record of it,
\* both return a success message and the later one issues no creation POST.
C5_CreateIdempotent ==
    \A r1, r2 \in Reqs :
        (/\ endpoint = "create" /\ r1 # r2
         /\ creq[r1].pc = "done" /\ creq[r2].pc = "done"
         /\ creq[r1].name = creq[r2].name
         /\ \E i \in CallsOf(r1, "post"), j \in CallsOf(r2, "probe") :
              /\ ~calls[i].fault /\ calls[i].status = 201 /\ calls[i].json
              /\ i < j
              /\ ~calls[j].fault /\ calls[j].status # 500 /\ calls[j].json)
            => /\ creq[r1].response.kind = "message"
               /\ creq[r2].response.kind = "message"
               /\ CallsOf(r2, "post") = {}

\* two finished calls with one name: the first created, the second found it
C5_Witness ==
    /\ endpoint = "create"
    /\ creq[1].pc = "done" /\ creq[2].pc = "done"
    /\ creq[1].name = creq[2].name
    /\ creq[1].response = MessageResponse(<<"created successfully with ID", creq[1].name>>)
    /\ creq[2].response = MessageResponse(<<"already exists with ID", creq[2].name>>)
    /\ Len(calls) = 3

\* C6: a create-service request whose serviceType is outside the allow-list is
\* answered 400 with the accepted types in the detail and issues no outbound call.
C6_InvalidTypeRejected ==
    \A r \in Reqs :
        (endpoint = "create" /\ creq[r].pc # "idle" /\ creq[r].serviceType \notin valid_service_types)
            => /\ creq[r].pc = "done"
               /\ creq[r].response.kind = "error"
               /\ creq[r].response.status = 400
               /\ creq[r].response.detail[2] = valid_service_types
               /\ CallsOf(r, "probe") = {} /\ CallsOf(r, "post") = {}

\* an invalid request was rejected while the other request made its calls
C6_Witness ==
    /\ endpoint = "create"
    /\ creq[1].serviceType = "NotARealDB" /\ creq[1].pc = "done"
    /\ creq[2].pc = "done" /\ CallsOf(2, "post") # {}

\* C7: when the service-record fetch returns a non-200 status or raises a
\* transport fault, the metadata request ends with an error response and the
\* service fetch stays the only outbound call.
C7_ServiceFetchFatal ==
    (/\ endpoint = "metadata" /\ calls # <<>>
     /\ (calls[1].fault \/ calls[1].status # 200))
        => /\ pc = "done"
           /\ response.kind = "error"
           /\ Len(calls) = 1 /\ calls[1].site = "service"

\* the service fetch was answered 404 and the request is over
C7_Witness ==
    /\ MetadataDone
    /\ calls[1].site = "service" /\ calls[1].status = 404
    /\ response.kind = "error"

\* C8: a service-record fetch answered 404 gives the caller a not-found (404)
\* error, unlike the 500 error of another upstream failure status.
C8_NotFoundDistinguished ==
    (/\ MetadataDone
     /\ calls[1].site = "service" /\ ~calls[1].fault /\ calls[1].status = 404)
        => response.kind = "error" /\ response.status = 404

\* C9: in a metadata response schema_count is the length of the database's
\* schemas list, a schema's table_count the length of its tables list, and a
\* database's table_count the number of tables in its schemas' lists; a node
\* whose schema or table listing was answered non-200 has count 0 and an empty
\* list, and that listing never ends the request with an error.
C9_CountsMatchLists ==
    /\ (endpoint = "metadata" /\ response.kind = "metadata") =>
        /\ \A d \in DatabaseModelsOf(response) :
            /\ d.schema_count = Len(d.schemas)
            /\ d.table_count = SumSeq([j \in 1..Len(d.schemas) |-> Len(d.schemas[j].tables)])
            /\ \A j \in 1..Len(d.schemas) :
                d.schemas[j].table_count = Len(d.schemas[j].tables)
        /\ \A i \in CallIdx :
            /\ (calls[i].site = "schemas" /\ NonSuccess(calls[i])) =>
                  \E d \in DatabaseModelsOf(response) :
                     d.name = calls[i].key /\ d.schema_count = 0 /\ d.schemas = <<>>
                                           /\ d.table_count = 0
            /\ (calls[i].site = "tables" /\ NonSuccess(calls[i])) =>
                  \E sm \in SchemaModelsOf(response) :
                     sm.name = calls[i].key /\ sm.table_count = 0 /\ sm.tables = <<>>
    /\ (endpoint = "metadata" /\ response.kind = "error") =>
         ~(calls[Len(calls)].site \in {"schemas", "tables"} /\ NonSuccess(calls[Len(calls)]))

\* a response with a failed table listing next to a listed table
C9_Witness ==
    /\ endpoint = "metadata" /\ response.kind = "metadata"
    /\ \E i \in CallIdx : calls[i].site = "tables" /\ NonSuccess(calls[i])
    /\ \E d \in DatabaseModelsOf(response) : d.table_count = 1 /\ d.schema_count = 2

\* C10: every Table record of a metadata response and of a tables listing has
\* column_count equal to the length of its columns list.
C10_ColumnCountMatches ==
    /\ (endpoint = "metadata" /\ response.kind = "metadata") =>
         \A t \in TableModelsOf(response) : t.column_count = Len(t.columns)
    /\ (endpoint = "tables" /\ response.kind = "tables") =>
         \A j \in 1..Len(response.tables) :
            response.tables[j].column_count = Len(response.tables[j].columns)

\* C11: in a metadata response total_databases is the number of databases
\* returned, total_schemas the sum of their schema_count, total_tables the sum
\* of their table_count and total_columns the sum of column_count over all
\* returned tables, whatever listings and detail fetches failed.
C11_SummaryTotalsMatchTree ==
    (endpoint = "metadata" /\ response.kind = "metadata") =>
        LET dbs == response.databases IN
            /\ response.summary.total_databases = Len(dbs)
            /\ response.summary.total_schemas =
                  SumSeq([i \in 1..Len(dbs) |-> dbs[i].schema_count])
            /\ response.summary.total_tables =
                  SumSeq([i \in 1..Len(dbs) |-> dbs[i].table_count])
            /\ response.summary.total_columns =
                  SumSeq([i \in 1..Len(dbs) |->
                     SumSeq([j \in 1..Len(dbs[i].schemas) |->
                        SumSeq([k \in 1..Len(dbs[i].schemas[j].tables) |->
                           dbs[i].schemas[j].tables[k].column_count])])])

\* a response with two schemas, a failed table listing, a failed detail fetch
\* and a table with a column
C11_Witness ==
    /\ endpoint = "metadata" /\ response.kind = "metadata"
    /\ response.summary.total_schemas = 2
    /\ response.summary.total_tables = 1
    /\ response.summary.total_columns = 1
    /\ \E i \in CallIdx : calls[i].site = "tables" /\ NonSuccess(calls[i])
    /\ \E i \in CallIdx : DetailFailed(calls[i])

C13_HealthNeverRaises ==
    endpoint = "health" =>
        /\ response.kind = "health"
        /\ Len(calls) = 1 /\ calls[1].site = "version"
        /\ response.openmetadata_healthy = (~calls[1].fault /\ calls[1].status = 200)

\* the probe was answered 200 with an unparsable body: still a healthy payload
C13_Witness ==
    /\ endpoint = "health"
    /\ calls[1].status = 200 /\ ~calls[1].json
    /\ response.kind = "health" /\ response.openmetadata_healthy

\* the optional query parameter carries a non-empty name
Given(x) == x.present /\ x.val # ""

\* C14: the tables listing sends exactly one filter key: databaseSchema =
\* service.db.schema when database_name and schema_name are both given,
\* database = service.db when only database_name is given, service = service
\* otherwise, schema_name alone being ignored; a normal response echoes
\* database_name, schema_name and include_columns as requested.
C14_TablesFilter ==
    endpoint = "tables" =>
        LET sent == calls[1].key
            svc == treq.service_name
            db == treq.database_name
            sch == treq.schema_name
        IN  /\ Len(calls) = 1
            /\ Cardinality(DOMAIN sent) = 1
            /\ (Given(db) /\ Given(sch)) =>
                  /\ DOMAIN sent = {"databaseSchema"}
                  /\ sent["databaseSchema"] = svc \o "." \o db.val \o "." \o sch.val
            /\ (Given(db) /\ ~Given(sch)) =>
                  /\ DOMAIN sent = {"database"}
                  /\ sent["database"] = svc \o "." \o db.val
            /\ ~Given(db) =>
                  /\ DOMAIN sent = {"service"}
                  /\ sent["service"] = svc
            /\ response.kind = "tables" =>
                  /\ response.filter.database_name = db
                  /\ response.filter.schema_name = sch
                  /\ response.filter.include_columns = treq.include_columns

\* both names given, columns not wanted, and the listing answered normally
C14_Witness ==
    /\ endpoint = "tables" /\ response.kind = "tables"
    /\ treq.database_name = Some("db1") /\ treq.schema_name = Some("s1")
    /\ ~treq.include_columns
    /\ calls[1].key = ("databaseSchema" :> "svc_a.db1.s1")
    /\ response.count = 2

\* what C15 says of one column record and its model
ColumnResolved(raw, model) ==
    /\ raw.dataType.kind = "dict" =>
          /\ model.dataType = raw.dataType.name
          /\ model.precision = raw.dataType.precision
          /\ model.scale = raw.dataType.scale
          /\ model.maxLength = raw.dataType.length
    /\ raw.dataType.kind = "flat" =>
          /\ model.dataType = Some(raw.dataType.val)
          /\ model.precision = None /\ model.scale = None /\ model.maxLength = None
    /\ raw.constraint.kind = "dict" => model.constraint = raw.constraint.name
    /\ raw.constraint.kind = "flat" => model.constraint = Some(raw.constraint.val)

\* C15: a normalized column whose dataType is a structured descriptor has the
\* descriptor's name as dataType and its precision, scale and length as
\* precision, scale and maxLength; one whose dataType is a flat string has that
\* string as dataType and null precision, scale and maxLength; constraint takes
\* the nested name over the flat string in the same way; nested columns too.
C15_DataTypePrecedence ==
    (endpoint = "normalize" /\ norm.model.kind = "column") =>
        /\ ColumnResolved(norm.raw, norm.model)
        /\ \A i \in 1..Len(norm.raw.children) :
              ColumnResolved(norm.raw.children[i], norm.model.children[i])

\* a flat dataType with a structured constraint, above a structured child
C15_Witness ==
    /\ endpoint = "normalize" /\ norm.model.kind = "column"
    /\ norm.raw.dataType = Flat("VARCHAR")
    /\ norm.raw.constraint = [kind |-> "dict", name |-> Some("UNIQUE")]
    /\ norm.model.dataType = Some("VARCHAR") /\ norm.model.precision = None
    /\ norm.model.constraint = Some("UNIQUE")
    /\ Len(norm.model.children) = 1
    /\ norm.model.children[1].dataType = Some("INT")
    /\ norm.model.children[1].precision = Some(3)

\* a structured dataType whose displayName differs from its name
C15_WitnessStructured ==
    /\ endpoint = "normalize" /\ norm.model.kind = "column"
    /\ norm.raw.dataType = Descriptor(Some("DECIMAL"), Some(10), Some(2), Some(255), Some("decimal"))
    /\ norm.model.dataType = Some("DECIMAL")
    /\ norm.model.precision = Some(10) /\ norm.model.scale = Some(2)
    /\ norm.model.maxLength = Some(255)

\* C16: the column normalizer returns a record for every upstream column whose
\* optional keys are absent in any combination and whose dataType and
\* constraint are absent, a flat string or a structured value, with "" for an
\* absent name and empty lists for absent tags and children; and the table
\* normalizer returns a record for every table it is given in the walk.
C16_NormalizationTotal ==
    /\ endpoint = "normalize" =>
          /\ norm.model.kind = "column"
          /\ ~norm.raw.name.present => norm.model.name = ""
          /\ norm.raw.tags = <<>> => norm.model.tags = <<>>
          /\ norm.raw.children = <<>> => norm.model.children = <<>>
    /\ MetadataDone => response # ExtractFailed("AttributeError")

\* a normal response of the given kind or an HTTP error with one of the statuses
Converted(resp, kind, statuses) ==
    \/ resp.kind = kind
    \/ resp.kind = "error" /\ resp.status \in statuses

\* C17: whatever status, transport fault or unparsable body the outbound calls
\* met, a finished create-service request, metadata extraction and tables
\* listing hold a normal response or an HTTP error with status 400, 404 or 500,
\* and the health check holds a payload; no other exception is what the
\* handler ended with.
C17_NoFaultEscapes ==
    /\ MetadataDone => Converted(response, "metadata", {404, 500})
    /\ endpoint = "tables" => Converted(response, "tables", {500})
    /\ \A r \in Reqs :
          (endpoint = "create" /\ creq[r].pc = "done") =>
              Converted(creq[r].response, "message", {400, 500})
    /\ endpoint = "health" => response.kind = "health"

\* a transport fault on a table listing, deep in the walk, came out as HTTP 500
C17_Witness ==
    /\ MetadataDone
    /\ Len(calls) > 3
    /\ calls[Len(calls)].site = "tables" /\ calls[Len(calls)].fault
    /\ response.kind = "error" /\ response.status = 500

\* C18: two create-service requests with one valid name, against an upstream
\* that answers every call and keeps names unique (the second creation POST of
\* a name is answered 409), both end with a success message, in every
\* interleaving of their probes and POSTs.
C18_ConcurrentCreateBothSucceed ==
    (/\ endpoint = "create"
     /\ creq[1].pc = "done" /\ creq[2].pc = "done"
     /\ creq[1].name = creq[2].name
     /\ creq[1].serviceType \in valid_service_types
     /\ creq[2].serviceType \in valid_service_types
     /\ \A i \in CallIdx : ~calls[i].fault /\ calls[i].json /\ calls[i].status # 500)
        => /\ creq[1].response.kind = "message"
           /\ creq[2].response.kind = "message"

\* the calls of a site, in the order they were issued
SiteCalls(site) == {i \in CallIdx : calls[i].site = site}

\* the last call of a site issued before call i, 0 when there is none
RECURSIVE LastBefore(_, _)
LastBefore(i, site) ==
    IF i <= 1 THEN 0
    ELSE IF calls[i - 1].site = site THEN i - 1
    ELSE LastBefore(i - 1, site)

\* the positions at which a key stands in the listing returned to call p
PositionsIn(p, field, key) ==
    IF p = 0 THEN {}
    ELSE {e \in 1..Len(calls[p].data) : calls[p].data[e][field] = key}

\* the positions of the listing entries a call may have been issued for
EntriesFor(i, parent, field) ==
    PositionsIn(LastBefore(i, parent), field, calls[i].key)

\* C19: within one metadata request the service record is fetched once and
\* first, the database listing is issued at most once, a schema listing at most
\* once per listed database, a table listing at most once per listed schema,
\* a detail fetch at most once per listed table and never for a table without
\* an id; no call, failed or not, is issued a second time.
C19_SingleAttempt ==
    (endpoint = "metadata" /\ calls # <<>>) =>
        /\ SiteCalls("service") = {1}
        /\ Cardinality(SiteCalls("databases")) <= 1
        /\ \A i, j \in CallIdx :
              (i # j /\ calls[i].site = calls[j].site) => calls[i].key # calls[j].key
        /\ \A i \in SiteCalls("schemas") : EntriesFor(i, "databases", "name") # {}
        /\ \A i \in SiteCalls("tables") : EntriesFor(i, "schemas", "name") # {}
        /\ \A i \in SiteCalls("detail") :
              /\ calls[i].key # NoId
              /\ EntriesFor(i, "tables", "id") # {}

\* a finished request that listed a table without an id next to one whose
\* detail fetch failed, and made exactly the five calls that go with it
C19_Witness ==
    /\ MetadataDone /\ response.kind = "metadata"
    /\ Len(calls) = 5
    /\ DetailFailed(calls[5])
    /\ \E t \in TableModelsOf(response) : t.id = NoId

\* the names of the entries of a sequence, in order
NamesOf(seq) == [i \in 1..Len(seq) |-> seq[i].name]

\* the listing call of a site answered for a key, 0 when it was not answered
ListingOf(site, key) ==
    IF \E i \in SiteCalls(site) : calls[i].key = key /\ Listed(calls[i])
    THEN CHOOSE i \in SiteCalls(site) : calls[i].key = key /\ Listed(calls[i])
    ELSE 0

\* the listing whose entries the calls of a site are issued for
ParentSite(site) ==
    CASE site = "schemas" -> "databases"
      [] site = "tables" -> "schemas"
      [] OTHER -> "tables"

\* C20: in a metadata response the databases, each database's schemas and each
\* schema's tables are the entries of the corresponding upstream listing, in
\* the listing's order, none dropped, duplicated or moved, whether or not the
\* detail fetches succeeded; and every schema listing, table listing and detail
\* fetch is issued for the next entry, in order, of the latest listing above it.
C20_ListingOrderKept ==
    /\ (endpoint = "metadata" /\ response.kind = "metadata") =>
          /\ NamesOf(response.databases) = NamesOf(calls[2].data)
          /\ \A d \in DatabaseModelsOf(response) :
                NamesOf(d.schemas) =
                    IF ListingOf("schemas", d.name) = 0 THEN <<>>
                    ELSE NamesOf(calls[ListingOf("schemas", d.name)].data)
          /\ \A sm \in SchemaModelsOf(response) :
                NamesOf(sm.tables) =
                    IF ListingOf("tables", sm.name) = 0 THEN <<>>
                    ELSE NamesOf(calls[ListingOf("tables", sm.name)].data)
    /\ endpoint = "metadata" =>
          \A j \in CallIdx :
             calls[j].site \in {"schemas", "tables", "detail"} =>
                LET parent == ParentSite(calls[j].site)
                    field == IF calls[j].site = "detail" THEN "id" ELSE "name"
                    p == LastBefore(j, parent)
                    mine == PositionsIn(p, field, calls[j].key)
                IN  /\ mine # {}
                    /\ \A i \in (p + 1)..(j - 1) :
                          calls[i].site = calls[j].site =>
                              \A a \in PositionsIn(p, field, calls[i].key),
                                 b \in mine : a < b

\* a schema with two tables in listing order, the first built from its
\* listing record after a failed detail fetch, the second from its detail
C20_Witness ==
    /\ endpoint = "metadata" /\ response.kind = "metadata"
    /\ \E sm \in SchemaModelsOf(response) :
          /\ Len(sm.tables) = 2
          /\ sm.tables[1].name < sm.tables[2].name
          /\ \E d \in CallIdx : DetailFailed(calls[d]) /\ calls[d].key = sm.tables[1].id
          /\ \E d \in CallIdx : ~DetailFailed(calls[d]) /\ calls[d].key = sm.tables[2].id

\* two databases, the calls below the first issued before the second's schema listing
C20_WitnessSiblings ==
    /\ endpoint = "metadata" /\ response.kind = "metadata"
    /\ Len(response.databases) = 2
    /\ \E i, j, k \in CallIdx :
          /\ i < j /\ j < k
          /\ calls[i].site = "schemas" /\ calls[j].site = "tables" /\ calls[k].site = "schemas"

====
